---- MODULE Spec2Model ----
(***************************************************************************)
(* hack/website/clean-md.py and hack/website/format.py: the link rewriter  *)
(* (convert_link), the two directory traversals (main, format_markdown)    *)
(* and the versions formatter (format_json).                               *)
(*                                                                         *)
(* Text is modelled as TLA+ strings, character by character: Len, \o and   *)
(* SubSeq are the only primitives used on them.                            *)
(***************************************************************************)
EXTENDS Integers, Sequences, FiniteSets, TLC

VARIABLES
    tool,       \* the script whose code runs: "clean-md.py" or "format.py"
    fs,         \* the files: path -> File(content), NoFile where there is none
    dirs,       \* the directories that exist
    out,        \* standard output, a sequence of lines
    pc,         \* position of the running invocation
    exit,       \* exit status of the invocation (NoExit while it runs)
    todo,       \* os.walk: directories still to scan
    pending,    \* os.walk: the file_list entries not visited yet
    opened,     \* paths convert_link has opened
    lost,       \* discovered, unread files that disappeared
    vanished,   \* number of files removed behind the tool's back
    res,        \* per tool, what its finished invocation left
    fs0,        \* the files before any invocation
    dirs0,      \* the directories before any invocation
    runs,       \* convert_link calls made on the single file
    readData,   \* the content the latest convert_link call read
    lastOut,    \* the lines the latest convert_link call printed
    src,        \* the versions record the versions file was written from
    data,       \* format_json: the parsed value
    wopens,     \* format_json: times the file was opened for writing
    writes      \* format_json: times f.write ran

vars == <<tool, fs, dirs, out, pc, exit, todo, pending, opened, lost, vanished,
          res, fs0, dirs0, runs, readData, lastOut, src, data, wopens, writes>>

walkVars == <<dirs, todo, pending, opened, lost, vanished, res, fs0, dirs0>>
linkVars == <<runs, readData, lastOut>>
jsonVars == <<src, data, wopens, writes>>

NoFile == [exists |-> FALSE, content |-> ""]
File(c) == [exists |-> TRUE, content |-> c]
NoExit == 0 - 1     \* no exit status yet
Tools == {"clean-md.py", "format.py"}

(***************************************************************************)
(* Bounds                                                                  *)
(***************************************************************************)
MaxSegs == 3        \* segments a Markdown content is assembled from
MaxRuns == 2        \* successive convert_link calls on one file
MaxVanish == 1      \* files removed during one traversal
MaxItems == 2       \* entries of a mapping or sequence of a versions file

(***************************************************************************)
(* str primitives                                                          *)
(***************************************************************************)
At(s, i) == SubSeq(s, i, i)

\* str.startswith(p)
startswith(s, p) == Len(p) <= Len(s) /\ SubSeq(s, 1, Len(p)) = p

\* s[-n:]
Last(s, n) == IF Len(s) <= n THEN s ELSE SubSeq(s, Len(s) - n + 1, Len(s))

\* str.find(p, i): the first index >= i where p occurs, 0 when there is none
RECURSIVE Find(_, _, _)
Find(s, p, i) ==
    IF i + Len(p) - 1 > Len(s) THEN 0
    ELSE IF SubSeq(s, i, i + Len(p) - 1) = p THEN i
    ELSE Find(s, p, i + 1)

\* p in s
In(p, s) == Find(s, p, 1) # 0

\* str.replace(old, new), old not empty: every non-overlapping occurrence,
\* left to right, in one pass
RECURSIVE replace(_, _, _)
replace(s, old, new) ==
    LET k == Find(s, old, 1) IN
    IF k = 0 THEN s
    ELSE SubSeq(s, 1, k - 1) \o new
         \o replace(SubSeq(s, k + Len(old), Len(s)), old, new)

Min(S) == CHOOSE x \in S : \A y \in S : x <= y

(***************************************************************************)
(* re.findall(r'(\[(.*?)\]\((.*?)\))', data)                               *)
(***************************************************************************)
\* "." matches any character but a line break
NoNewline(s, a, b) == \A k \in a..b : At(s, k) # "\n"

\* the positions k of the ")" that can close a target starting at j
TargetEnds(s, j) == {k \in j..Len(s) : At(s, k) = ")" /\ NoNewline(s, j, k - 1)}

\* the positions j of the "](" that can close a label starting after i
LabelEnds(s, i) ==
    {j \in (i + 1)..(Len(s) - 1) :
        /\ At(s, j) = "]" /\ At(s, j + 1) = "("
        /\ NoNewline(s, i + 1, j - 1)
        /\ TargetEnds(s, j + 2) # {}}

\* the match starting at i, or none: both groups are non-greedy
MatchAt(s, i) ==
    IF At(s, i) # "[" \/ LabelEnds(s, i) = {} THEN [found |-> FALSE]
    ELSE LET j == Min(LabelEnds(s, i))
             k == Min(TargetEnds(s, j + 2))
         IN [found |-> TRUE, end |-> k,
             url |-> <<SubSeq(s, i, k), SubSeq(s, i + 1, j - 1),
                       SubSeq(s, j + 2, k - 1)>>]

\* the non-overlapping matches from position i on, in order; each url is
\* <<whole match, label, target>>, read below as url[1], url[2], url[3]
RECURSIVE findall(_, _)
findall(s, i) ==
    IF i > Len(s) THEN <<>>
    ELSE LET m == MatchAt(s, i) IN
         IF m.found THEN <<m.url>> \o findall(s, m.end + 1)
         ELSE findall(s, i + 1)

(***************************************************************************)
(* convert_link                                                            *)
(***************************************************************************)
\* the two guards of the loop body
is_http(target) == startswith(target, "http") \/ startswith(target, "https")
has_md(target) == In(".md", target) \/ In(".mdx", target)
rewritable(url) == ~is_http(url[3]) /\ has_md(url[3])

\* clean-md.py strips ".md" first, format.py strips ".mdx" first
new_path_clean_md(target) == replace(replace(target, ".md", ""), ".mdx", "")
new_path_format(target) == replace(replace(target, ".mdx", ""), ".md", "")
new_path(t, target) ==
    IF t = "clean-md.py" THEN new_path_clean_md(target)
    ELSE new_path_format(target)

\* "[{}]({})".format(url[1], new_path)
new_url(label, path) == "[" \o label \o "](" \o path \o ")"

\* the for loop over url_arr from its k-th entry, on st = [data, out]
RECURSIVE convert_loop(_, _, _, _)
convert_loop(t, url_arr, k, st) ==
    IF k > Len(url_arr) THEN st
    ELSE LET url == url_arr[k] IN
         IF rewritable(url)
         THEN LET nu == new_url(url[2], new_path(t, url[3])) IN
              convert_loop(t, url_arr, k + 1,
                  [data |-> replace(st.data, url[1], nu),
                   out |-> Append(st.out,
                              "convert " \o url[1] \o " to " \o nu)])
         ELSE convert_loop(t, url_arr, k + 1, st)

\* the content written back and the lines printed for the content read
convert_link(t, content) ==
    convert_loop(t, findall(content, 1), 1, [data |-> content, out |-> <<>>])

(***************************************************************************)
(* One Markdown file, convert_link called on it (SpecLink)                 *)
(***************************************************************************)
MdFile == "x.md"

Targets == {"a", "a.md", "a.mdx", "a.m.mdd", "./page.html",
            "https://e.com/r.md", "httpx.md", ".md"}
Links == {new_url("a", t) : t \in Targets}
Openers == {"[x](http", "[y](.md"}
Segments == Links \cup Openers \cup {" ", "\n"}

RECURSIVE Concat(_)
Concat(ss) == IF ss = <<>> THEN "" ELSE Head(ss) \o Concat(Tail(ss))

Contents == {Concat(ss) : ss \in UNION {[1..n -> Segments] : n \in 0..MaxSegs}}

InitLink ==
    /\ tool \in Tools
    /\ \E c \in Contents : fs = [p \in {MdFile} |-> File(c)]
    /\ fs0 = fs
    /\ out = <<>>
    /\ runs = 0
    /\ readData = ""
    /\ lastOut = <<>>
    /\ pc = "idle"
    /\ exit = NoExit
    /\ dirs = {} /\ dirs0 = {} /\ todo = <<>> /\ pending = {} /\ opened = {}
    /\ lost = {} /\ vanished = 0 /\ res = <<>>
    /\ src = "" /\ data = "" /\ wopens = 0 /\ writes = 0

\* convert_link(md), whole: read, rewrite, print, write back
CallConvertLink ==
    /\ runs < MaxRuns
    /\ LET st == convert_link(tool, fs[MdFile].content) IN
       /\ readData' = fs[MdFile].content
       /\ fs' = [fs EXCEPT ![MdFile] = File(st.data)]
       /\ lastOut' = st.out
       /\ out' = out \o st.out
    /\ runs' = runs + 1
    /\ UNCHANGED <<tool, pc, exit, dirs, todo, pending, opened, lost, vanished,
                   res, fs0, dirs0>>
    /\ UNCHANGED jsonVars

NextLink == CallConvertLink

SpecLink == InitLink /\ [][NextLink]_vars

(***************************************************************************)
(* A directory tree, each tool run on its own copy of it (SpecWalk)        *)
(***************************************************************************)
Root == "docs"
Sub == "docs/sub"

\* os.path.join(path, file_name)
join(path, name) == path \o "/" \o name

\* the directory entries a tree may hold: <<directory, file name>>
Entries == {<<Root, "a.md">>, <<Root, "b.mdx">>, <<Root, "c.txt">>,
            <<Sub, "d.md">>}
FilePaths == {join(e[1], e[2]) : e \in Entries}
FileContents == {"[a](a.mdx)", "[a](b.md) x"}

NotRun == [ran |-> FALSE]

InitWalk ==
    /\ dirs0 \in {{}, {Root}, {Root, Sub}}
    /\ fs0 \in [FilePaths -> {File(c) : c \in FileContents} \cup {NoFile}]
    /\ \A e \in Entries : fs0[join(e[1], e[2])] # NoFile => e[1] \in dirs0
    /\ fs = fs0
    /\ dirs = dirs0
    /\ tool = "clean-md.py"
    /\ pc = "idle"
    /\ exit = NoExit
    /\ out = <<>>
    /\ todo = <<>> /\ pending = {} /\ opened = {} /\ lost = {} /\ vanished = 0
    /\ res = [t \in Tools |-> NotRun]
    /\ runs = 0 /\ readData = "" /\ lastOut = <<>>
    /\ src = "" /\ data = "" /\ wopens = 0 /\ writes = 0

\* the test of clean-md.py's main on a file_path
is_markdown_clean_md(file_path) ==
    Last(file_path, 3) = ".md" \/ Last(file_path, 3) = ".mdx"

\* the test of format.py's format_markdown on a file_path
is_markdown_format(file_path) ==
    Last(file_path, 3) = ".md" \/ Last(file_path, 4) = ".mdx"

is_markdown(t, file_path) ==
    IF t = "clean-md.py" THEN is_markdown_clean_md(file_path)
    ELSE is_markdown_format(file_path)

\* the invocation ends: its exit status and what it left are recorded
Exited(status, files, lines, seen) ==
    /\ pc' = "idle"
    /\ exit' = status
    /\ res' = [res EXCEPT ![tool] =
                  [ran |-> TRUE, exit |-> status, fs |-> files, out |-> lines,
                   opened |-> seen, lost |-> lost, vanished |-> vanished]]

\* `clean-md.py <root>` or `format.py markdown <root>` is started on a
\* fresh copy of the tree: files = os.walk(path)
Invoke(t) ==
    /\ pc = "idle"
    /\ ~res[t].ran
    /\ tool' = t
    /\ fs' = fs0
    /\ dirs' = dirs0
    /\ out' = <<>>
    /\ todo' = <<Root>>
    /\ pending' = {}
    /\ opened' = {}
    /\ lost' = {}
    /\ vanished' = 0
    /\ pc' = "walk"
    /\ exit' = NoExit
    /\ UNCHANGED <<res, fs0, dirs0>>
    /\ UNCHANGED linkVars
    /\ UNCHANGED jsonVars

\* os.walk yields the next directory, top-down: its file_list is listed,
\* its sub-directories are queued; a directory that cannot be listed is
\* passed over (os.walk's onerror is None)
WalkDir ==
    /\ pc = "walk"
    /\ pending = {}
    /\ todo # <<>>
    /\ LET top == Head(todo) IN
       IF top \in dirs
       THEN /\ pending' = {e \in Entries : e[1] = top /\ fs[join(e[1], e[2])] # NoFile}
            /\ todo' = (IF top = Root /\ Sub \in dirs THEN <<Sub>> ELSE <<>>)
                       \o Tail(todo)
       ELSE /\ pending' = {}
            /\ todo' = Tail(todo)
    /\ UNCHANGED <<tool, fs, dirs, out, pc, exit, opened, lost, vanished, res,
                   fs0, dirs0>>
    /\ UNCHANGED linkVars
    /\ UNCHANGED jsonVars

\* the body of the inner for loop on one file_name: the suffix test, then
\* convert_link, whose open() raises when the file is gone
VisitFile ==
    /\ pc = "walk"
    /\ \E e \in pending :
        LET file_path == join(e[1], e[2]) IN
        /\ pending' = pending \ {e}
        /\ IF ~is_markdown(tool, file_path)
           THEN UNCHANGED <<fs, out, opened, pc, exit, res>>
           ELSE IF fs[file_path] = NoFile
           THEN /\ Exited(1, fs, out, opened)
                /\ UNCHANGED <<fs, out, opened>>
           ELSE LET st == convert_link(tool, fs[file_path].content) IN
                /\ fs' = [fs EXCEPT ![file_path] = File(st.data)]
                /\ out' = out \o st.out
                /\ opened' = opened \cup {file_path}
                /\ UNCHANGED <<pc, exit, res>>
    /\ UNCHANGED <<tool, dirs, todo, lost, vanished, fs0, dirs0>>
    /\ UNCHANGED linkVars
    /\ UNCHANGED jsonVars

\* os.walk is exhausted: the script ends normally
WalkEnd ==
    /\ pc = "walk"
    /\ pending = {}
    /\ todo = <<>>
    /\ Exited(0, fs, out, opened)
    /\ UNCHANGED <<tool, fs, dirs, out, todo, pending, opened, lost, vanished,
                   fs0, dirs0>>
    /\ UNCHANGED linkVars
    /\ UNCHANGED jsonVars

\* another process removes a file while the tool runs
Vanish(p) ==
    /\ pc = "walk"
    /\ vanished < MaxVanish
    /\ fs[p] # NoFile
    /\ fs' = [fs EXCEPT ![p] = NoFile]
    /\ vanished' = vanished + 1
    /\ lost' = IF \E e \in pending : join(e[1], e[2]) = p
               THEN lost \cup {p} ELSE lost
    /\ UNCHANGED <<tool, dirs, out, pc, exit, todo, pending, opened, res, fs0,
                   dirs0>>
    /\ UNCHANGED linkVars
    /\ UNCHANGED jsonVars

NextWalk ==
    \/ \E t \in Tools : Invoke(t)
    \/ WalkDir
    \/ VisitFile
    \/ WalkEnd
    \/ \E p \in FilePaths : Vanish(p)

SpecWalk == InitWalk /\ [][NextWalk]_vars

(***************************************************************************)
(* format_json: re.sub(r"(\w+)=", r"'\1':", content)                       *)
(***************************************************************************)
Digits == {"0", "1", "2", "3", "4", "5", "6", "7", "8", "9"}
Letters ==
    {"a", "b", "c", "d", "e", "f", "g", "h", "i", "j", "k", "l", "m", "n", "o",
     "p", "q", "r", "s", "t", "u", "v", "w", "x", "y", "z", "A", "B", "C", "D",
     "E", "F", "G", "H", "I", "J", "K", "L", "M", "N", "O", "P", "Q", "R", "S",
     "T", "U", "V", "W", "X", "Y", "Z", "_"}

\* \w
IsWord(c) == c \in Letters \cup Digits

\* the last index of the run of word characters that starts at i
RECURSIVE WordEnd(_, _)
WordEnd(s, i) ==
    IF i < Len(s) /\ IsWord(At(s, i + 1)) THEN WordEnd(s, i + 1) ELSE i

\* every run of word characters directly followed by "=" becomes the run
\* in single quotes followed by ":"; the rest is copied
RECURSIVE re_sub(_, _)
re_sub(s, i) ==
    IF i > Len(s) THEN ""
    ELSE IF IsWord(At(s, i))
    THEN LET e == WordEnd(s, i) IN
         IF e < Len(s) /\ At(s, e + 1) = "="
         THEN "'" \o SubSeq(s, i, e) \o "':" \o re_sub(s, e + 2)
         ELSE SubSeq(s, i, e) \o re_sub(s, e + 1)
    ELSE At(s, i) \o re_sub(s, i + 1)

(***************************************************************************)
(* format_json: ast.literal_eval, on the characters a versions file of     *)
(* this model is written in: braces, brackets, comma, colon, both quotes,  *)
(* blanks, words, decimal digit runs, and "=", "?", "." (no backslash, no  *)
(* line break, no parenthesis, no sign)                                    *)
(***************************************************************************)
PyValue(t, s, items) == [t |-> t, s |-> s, items |-> items]
PyStr(s) == PyValue("str", s, <<>>)
PyInt(s) == PyValue("int", s, <<>>)
PyTrue == PyValue("True", "", <<>>)
PyFalse == PyValue("False", "", <<>>)
PyNone == PyValue("None", "", <<>>)
PyList(items) == PyValue("list", "", items)
PyPair(k, v) == PyValue("pair", "", <<k, v>>)
PyDict(pairs) == PyValue("dict", "", pairs)
PySet(items) == PyValue("set", "", items)

Tok(k, s) == [k |-> k, s |-> s]

\* a word is a name, a decimal integer, or no token of the grammar
WordKind(w) ==
    IF At(w, 1) \notin Digits THEN "name"
    ELSE IF /\ \A k \in 1..Len(w) : At(w, k) \in Digits
            /\ (At(w, 1) # "0" \/ \A k \in 1..Len(w) : At(w, k) = "0")
    THEN "num"
    ELSE "bad"

RECURSIVE tokenize(_, _)
tokenize(s, i) ==
    IF i > Len(s) THEN <<>>
    ELSE LET c == At(s, i) IN
         IF c = " " THEN tokenize(s, i + 1)
         ELSE IF c \in {"'", "\""}
         THEN LET j == Find(s, c, i + 1) IN
              IF j = 0 THEN <<Tok("bad", SubSeq(s, i, Len(s)))>>
              ELSE <<Tok("str", SubSeq(s, i + 1, j - 1))>> \o tokenize(s, j + 1)
         ELSE IF IsWord(c)
         THEN LET e == WordEnd(s, i)
                  w == SubSeq(s, i, e)
              IN <<Tok(WordKind(w), w)>> \o tokenize(s, e + 1)
         ELSE IF c \in {"{", "}", "[", "]", ",", ":"}
         THEN <<Tok("op", c)>> \o tokenize(s, i + 1)
         ELSE <<Tok("bad", c)>> \o tokenize(s, i + 1)

\* the constants a name may denote: Python's for literal_eval, JSON's for
\* a reader of the file written
NameValue(lang, w) ==
    IF lang = "py"
    THEN CASE w = "True" -> <<PyTrue>> [] w = "False" -> <<PyFalse>>
           [] w = "None" -> <<PyNone>> [] OTHER -> <<>>
    ELSE CASE w = "true" -> <<PyTrue>> [] w = "false" -> <<PyFalse>>
           [] w = "null" -> <<PyNone>> [] OTHER -> <<>>

Fail == [ok |-> FALSE, v |-> PyNone, i |-> 0]
Ok(v, i) == [ok |-> TRUE, v |-> v, i |-> i]
IsOp(toks, i, c) == i <= Len(toks) /\ toks[i] = Tok("op", c)

\* a dict key or set element must be hashable
hashable(v) == v.t \in {"str", "int", "True", "False", "None"}

\* d[k] = v: a key already present keeps its place and takes the new value
RECURSIVE put(_, _, _)
put(pairs, k, v) ==
    IF pairs = <<>> THEN <<PyPair(k, v)>>
    ELSE IF Head(pairs).items[1] = k THEN <<PyPair(k, v)>> \o Tail(pairs)
    ELSE <<Head(pairs)>> \o put(Tail(pairs), k, v)

\* a set keeps one of equal elements
add(items, v) ==
    IF \E k \in 1..Len(items) : items[k] = v THEN items ELSE Append(items, v)

RECURSIVE parse_value(_, _, _)
RECURSIVE parse_strs(_, _, _)
RECURSIVE parse_items(_, _, _, _)
RECURSIVE parse_pairs(_, _, _, _)
RECURSIVE parse_elems(_, _, _, _)

\* adjacent string literals are one string
parse_strs(toks, i, acc) ==
    IF i <= Len(toks) /\ toks[i].k = "str"
    THEN parse_strs(toks, i + 1, acc \o toks[i].s)
    ELSE Ok(PyStr(acc), i)

\* the elements of a list display after "[", up to "]"
parse_items(lang, toks, i, acc) ==
    IF IsOp(toks, i, "]") THEN Ok(acc, i + 1)
    ELSE LET r == parse_value(lang, toks, i) IN
         IF ~r.ok THEN Fail
         ELSE IF IsOp(toks, r.i, ",")
         THEN parse_items(lang, toks, r.i + 1, Append(acc, r.v))
         ELSE IF IsOp(toks, r.i, "]") THEN Ok(Append(acc, r.v), r.i + 1)
         ELSE Fail

\* the key: value pairs of a dict display, up to "}"
parse_pairs(lang, toks, i, acc) ==
    IF IsOp(toks, i, "}") THEN Ok(acc, i + 1)
    ELSE LET k == parse_value(lang, toks, i) IN
         IF ~k.ok \/ ~IsOp(toks, k.i, ":") THEN Fail
         ELSE LET r == parse_value(lang, toks, k.i + 1) IN
              IF ~r.ok \/ ~hashable(k.v) THEN Fail
              ELSE IF IsOp(toks, r.i, ",")
              THEN parse_pairs(lang, toks, r.i + 1, put(acc, k.v, r.v))
              ELSE IF IsOp(toks, r.i, "}")
              THEN Ok(put(acc, k.v, r.v), r.i + 1)
              ELSE Fail

\* the elements of a set display, up to "}"
parse_elems(lang, toks, i, acc) ==
    IF IsOp(toks, i, "}") THEN Ok(acc, i + 1)
    ELSE LET r == parse_value(lang, toks, i) IN
         IF ~r.ok \/ ~hashable(r.v) THEN Fail
         ELSE IF IsOp(toks, r.i, ",")
         THEN parse_elems(lang, toks, r.i + 1, add(acc, r.v))
         ELSE IF IsOp(toks, r.i, "}") THEN Ok(add(acc, r.v), r.i + 1)
         ELSE Fail

parse_value(lang, toks, i) ==
    IF i > Len(toks) THEN Fail
    ELSE LET tok == toks[i] IN
         IF tok.k = "str" THEN parse_strs(toks, i, "")
         ELSE IF tok.k = "num" THEN Ok(PyInt(tok.s), i + 1)
         ELSE IF tok.k = "name"
         THEN LET c == NameValue(lang, tok.s) IN
              IF c = <<>> THEN Fail ELSE Ok(c[1], i + 1)
         ELSE IF tok = Tok("op", "[")
         THEN LET r == parse_items(lang, toks, i + 1, <<>>) IN
              IF r.ok THEN Ok(PyList(r.v), r.i) ELSE Fail
         ELSE IF tok = Tok("op", "{")
         THEN IF IsOp(toks, i + 1, "}") THEN Ok(PyDict(<<>>), i + 2)
              ELSE LET k == parse_value(lang, toks, i + 1) IN
                   IF ~k.ok THEN Fail
                   ELSE IF IsOp(toks, k.i, ":")
                   THEN LET r == parse_pairs(lang, toks, i + 1, <<>>) IN
                        IF r.ok THEN Ok(PyDict(r.v), r.i) ELSE Fail
                   ELSE LET r == parse_elems(lang, toks, i + 1, <<>>) IN
                        IF r.ok THEN Ok(PySet(r.v), r.i) ELSE Fail
         ELSE Fail

\* one expression and nothing after it
parse(lang, text) ==
    LET toks == tokenize(text, 1)
        r == parse_value(lang, toks, 1)
    IN IF r.ok /\ r.i = Len(toks) + 1 THEN [ok |-> TRUE, v |-> r.v]
       ELSE [ok |-> FALSE, v |-> PyNone]

literal_eval(text) == parse("py", text)

(***************************************************************************)
(* format_json: json.dumps                                                 *)
(***************************************************************************)
\* a JSON string
quote(s) == "\"" \o replace(replace(s, "\\", "\\\\"), "\"", "\\\"") \o "\""

\* a dict key as json.dumps writes it
dumps_key(k) ==
    CASE k.t = "str" -> quote(k.s)
      [] k.t = "int" -> quote(k.s)
      [] k.t = "True" -> quote("true")
      [] k.t = "False" -> quote("false")
      [] OTHER -> quote("null")

NoJson == [ok |-> FALSE, s |-> ""]
Json(s) == [ok |-> TRUE, s |-> s]

RECURSIVE dumps(_)
RECURSIVE dumps_items(_, _)

\* the items from the k-th on, separated by ", "; a pair is "key": value
dumps_items(items, k) ==
    IF k > Len(items) THEN Json("")
    ELSE LET it == items[k]
             one == IF it.t = "pair"
                    THEN LET r == dumps(it.items[2]) IN
                         IF r.ok THEN Json(dumps_key(it.items[1]) \o ": " \o r.s)
                         ELSE NoJson
                    ELSE dumps(it)
             rest == dumps_items(items, k + 1)
         IN IF ~one.ok \/ ~rest.ok THEN NoJson
            ELSE IF k = Len(items) THEN one
            ELSE Json(one.s \o ", " \o rest.s)

\* json.dumps(data); a set is not JSON serializable
dumps(v) ==
    CASE v.t = "str" -> Json(quote(v.s))
      [] v.t = "int" -> Json(v.s)
      [] v.t = "True" -> Json("true")
      [] v.t = "False" -> Json("false")
      [] v.t = "None" -> Json("null")
      [] v.t = "list" ->
            LET r == dumps_items(v.items, 1) IN
            IF r.ok THEN Json("[" \o r.s \o "]") ELSE NoJson
      [] v.t = "dict" ->
            LET r == dumps_items(v.items, 1) IN
            IF r.ok THEN Json("{" \o r.s \o "}") ELSE NoJson
      [] OTHER -> NoJson

(***************************************************************************)
(* One versions file, format_json run on it (SpecJson)                     *)
(***************************************************************************)
VersionsFile == "versions.json"

\* a versions record as written: its text, the value it denotes, whether
\* the text is in the documented syntax, whether all its values are strings
Source(text, val, doc, strs) ==
    [text |-> text, val |-> val, doc |-> doc, strs |-> strs]

Scalars ==
    {Source("\"1.0\"", PyStr("1.0"), TRUE, TRUE),
     Source("\"x?a=b\"", PyStr("x?a=b"), TRUE, TRUE),
     Source("'k=v'", PyStr("k=v"), TRUE, TRUE),
     Source("1", PyInt("1"), TRUE, FALSE),
     Source("true", PyTrue, TRUE, FALSE),
     Source("null", PyNone, TRUE, FALSE),
     Source("True", PyTrue, FALSE, FALSE)}
Keys == {"version", "stable"}

\* the texts of xs from the k-th on, separated by ", ", each after its key
RECURSIVE JoinText(_, _, _)
JoinText(ks, xs, k) ==
    IF k > Len(xs) THEN ""
    ELSE (IF ks = <<>> THEN "" ELSE ks[k] \o "=") \o xs[k].text
         \o (IF k = Len(xs) THEN "" ELSE ", ") \o JoinText(ks, xs, k + 1)

SrcList(xs) ==
    Source("[" \o JoinText(<<>>, xs, 1) \o "]",
           PyList([k \in 1..Len(xs) |-> xs[k].val]),
           \A k \in 1..Len(xs) : xs[k].doc,
           \A k \in 1..Len(xs) : xs[k].strs)
SrcDict(ks, xs) ==
    Source("{" \o JoinText(ks, xs, 1) \o "}",
           PyDict([k \in 1..Len(xs) |-> PyPair(PyStr(ks[k]), xs[k].val)]),
           \A k \in 1..Len(xs) : xs[k].doc,
           \A k \in 1..Len(xs) : xs[k].strs)

KeySeqs ==
    {ks \in UNION {[1..n -> Keys] : n \in 1..MaxItems} :
        \A a, b \in 1..Len(ks) : ks[a] = ks[b] => a = b}
Lists == {SrcList(xs) : xs \in UNION {[1..n -> Scalars] : n \in 0..MaxItems}}
Dicts == UNION {{SrcDict(ks, xs) : xs \in [1..Len(ks) -> Scalars]} : ks \in KeySeqs}
Nested == {SrcDict(<<k>>, <<x>>) : k \in Keys, x \in Lists \cup Dicts}
WellFormed == Lists \cup Dicts \cup Nested

\* a file cut one character short, and a set written for a record
Truncated(x) ==
    Source(SubSeq(x.text, 1, Len(x.text) - 1), x.val, FALSE, FALSE)
SetOf(x) == Source("{" \o x.text \o "}", PySet(<<x.val>>), FALSE, FALSE)

Sources ==
    WellFormed \cup {Truncated(x) : x \in WellFormed} \cup {SetOf(x) : x \in Scalars}

InitJson ==
    /\ src \in Sources
    /\ fs = [p \in {VersionsFile} |-> File(src.text)]
    /\ fs0 = fs
    /\ tool = "format.py"
    /\ pc = "start"
    /\ exit = NoExit
    /\ out = <<>>
    /\ data = PyNone
    /\ wopens = 0
    /\ writes = 0
    /\ dirs = {} /\ dirs0 = {} /\ todo = <<>> /\ pending = {} /\ opened = {}
    /\ lost = {} /\ vanished = 0 /\ res = <<>>
    /\ runs = 0 /\ readData = "" /\ lastOut = <<>>

\* a variant of FormatJsonParse in which the file is opened for writing
\* before its content is parsed, so that a failed parse leaves it empty
FormatJsonParseTruncating ==
    /\ pc = "start"
    /\ LET r == literal_eval(re_sub(fs[VersionsFile].content, 1)) IN
       IF r.ok
       THEN /\ data' = r.v
            /\ pc' = "parsed"
            /\ UNCHANGED <<exit, fs, wopens>>
       ELSE /\ pc' = "exited"
            /\ exit' = 1
            /\ fs' = [fs EXCEPT ![VersionsFile] = File("")]
            /\ wopens' = wopens + 1
            /\ UNCHANGED data
    /\ UNCHANGED <<tool, out, src, writes>>
    /\ UNCHANGED walkVars
    /\ UNCHANGED linkVars

\* content = f.read(); data = ast.literal_eval(re.sub(...)): a text that
\* is no literal raises, and the script ends with a traceback
FormatJsonParse ==
    /\ pc = "start"
    /\ LET r == literal_eval(re_sub(fs[VersionsFile].content, 1)) IN
       IF r.ok
       THEN /\ data' = r.v
            /\ pc' = "parsed"
            /\ UNCHANGED exit
       ELSE /\ pc' = "exited"
            /\ exit' = 1
            /\ UNCHANGED data
    /\ UNCHANGED <<tool, fs, out, src, wopens, writes>>
    /\ UNCHANGED walkVars
    /\ UNCHANGED linkVars

\* print(f"format versions.json: {data}"): the line is kept as its fixed
\* text and the value printed
FormatJsonPrint ==
    /\ pc = "parsed"
    /\ out' = Append(out, <<"format versions.json: ", data>>)
    /\ pc' = "printed"
    /\ UNCHANGED <<tool, fs, exit, src, data, wopens, writes>>
    /\ UNCHANGED walkVars
    /\ UNCHANGED linkVars

\* open(file, "w") truncates the file
FormatJsonOpen ==
    /\ pc = "printed"
    /\ fs' = [fs EXCEPT ![VersionsFile] = File("")]
    /\ wopens' = wopens + 1
    /\ pc' = "opened"
    /\ UNCHANGED <<tool, out, exit, src, data, writes>>
    /\ UNCHANGED walkVars
    /\ UNCHANGED linkVars

\* f.write(json.dumps(data)): json.dumps raises on a value JSON has no
\* form for, before anything is written
FormatJsonWrite ==
    /\ pc = "opened"
    /\ LET r == dumps(data) IN
       IF r.ok
       THEN /\ fs' = [fs EXCEPT ![VersionsFile] = File(r.s)]
            /\ writes' = writes + 1
            /\ exit' = 0
       ELSE /\ exit' = 1
            /\ UNCHANGED <<fs, writes>>
    /\ pc' = "exited"
    /\ UNCHANGED <<tool, out, src, data, wopens>>
    /\ UNCHANGED walkVars
    /\ UNCHANGED linkVars

NextJson ==
    \/ FormatJsonParse
    \/ FormatJsonPrint
    \/ FormatJsonOpen
    \/ FormatJsonWrite

SpecJson == InitJson /\ [][NextJson]_vars

(***************************************************************************)
(* Claims about convert_link (SpecLink)                                    *)
(***************************************************************************)
\* the matches convert_link found in the content its latest call read
url_arr_read == findall(readData, 1)
Matches == {url_arr_read[k] : k \in 1..Len(url_arr_read)}

\* C1: every match that is rewritable (target not starting with http,
\* containing .md or .mdx) is written back as a link with the same label
\* and a target that holds no ".md" and no ".mdx".
C1_RewrittenTargetHasNoExtension ==
    runs >= 1 =>
        \A url \in Matches :
            rewritable(url) =>
                LET target == new_path(tool, url[3]) IN
                /\ In(new_url(url[2], target), fs[MdFile].content)
                /\ ~In(".md", target)
                /\ ~In(".mdx", target)

\* C2: every match that is not rewritable occurs byte-identical in the
\* content written back, whatever the other links of the file are.
C2_OtherLinksUntouched ==
    runs >= 1 =>
        \A url \in Matches : ~rewritable(url) => In(url[1], fs[MdFile].content)

\* C3: a second convert_link call in succession leaves the content the
\* first call wrote and prints no "convert" line.
C3_Idempotent ==
    runs >= 2 => fs[MdFile].content = readData /\ lastOut = <<>>

\* C10: for every rewritable target, stripping ".md" then ".mdx"
\* (clean-md.py) and stripping ".mdx" then ".md" (format.py) give the same
\* new target.
C10_StripOrderIrrelevant ==
    runs >= 1 =>
        \A url \in Matches :
            rewritable(url) =>
                new_path_clean_md(url[3]) = new_path_format(url[3])

(***************************************************************************)
(* Claims about the traversals (SpecWalk)                                  *)
(***************************************************************************)
\* the regular files of the tree whose name ends in ".md" or in ".mdx"
EndsWith(s, suffix) ==
    Len(s) >= Len(suffix) /\ SubSeq(s, Len(s) - Len(suffix) + 1, Len(s)) = suffix
MarkdownFiles ==
    {p \in FilePaths : fs0[p] # NoFile /\ (EndsWith(p, ".md") \/ EndsWith(p, ".mdx"))}

\* the lines of an output with the number of times each was printed
Lines(o) ==
    [l \in {o[i] : i \in 1..Len(o)} |-> Cardinality({i \in 1..Len(o) : o[i] = l})]

\* C4: each tool's traversal applies convert_link to exactly the files
\* whose name ends in ".md" or ".mdx": all of them, and no other file.
C4_VisitsExactlyMarkdown ==
    \A t \in Tools :
        (res[t].ran /\ res[t].vanished = 0) => res[t].opened = MarkdownFiles

\* C8: an invocation on a root that does not exist, or during which a
\* discovered .md/.mdx file disappeared before it was read, never ends
\* with exit status 0.
C8_MissingPathIsFatal ==
    \A t \in Tools :
        (/\ res[t].ran
         /\ \/ Root \notin dirs0
            \/ \E p \in res[t].lost : EndsWith(p, ".md") \/ EndsWith(p, ".mdx"))
        => res[t].exit # 0

\* C9: from the same tree, `format.py markdown <root>` and
\* `clean-md.py <root>` leave every file with the same content and print
\* the same diagnostic lines.
C9_MarkdownModeEqualsCleaner ==
    (/\ \A t \in Tools : res[t].ran /\ res[t].vanished = 0)
    => /\ res["format.py"].fs = res["clean-md.py"].fs
       /\ Lines(res["format.py"].out) = Lines(res["clean-md.py"].out)

(***************************************************************************)
(* Claims about format_json (SpecJson)                                     *)
(***************************************************************************)
\* a reader of the JSON written: the same grammar with JSON's constants
json_loads(text) == parse("json", text)

\* the string values of a value, in order
RECURSIVE StrValues(_)
RECURSIVE StrValuesOf(_, _)
StrValuesOf(items, k) ==
    IF k > Len(items) THEN <<>>
    ELSE StrValues(items[k]) \o StrValuesOf(items, k + 1)
StrValues(v) ==
    IF v.t = "str" THEN <<v.s>>
    ELSE IF v.t = "pair" THEN StrValues(v.items[2])
    ELSE StrValuesOf(v.items, 1)

\* whether the text the run started from parses once its keys are rewritten
ParseSucceeds == literal_eval(re_sub(fs0[VersionsFile].content, 1)).ok

\* C5: on every versions file in the documented syntax format_json
\* succeeds and leaves JSON equivalent to the structure the file denotes.
C5_DocumentedSyntaxFormats ==
    (src.doc /\ pc = "exited") =>
        /\ exit = 0
        /\ json_loads(fs[VersionsFile].content) = [ok |-> TRUE, v |-> src.val]

\* C6: on a versions file whose values are quoted strings, every string
\* value of the JSON written back equals the string value of the input.
C6_StringValuesUnchanged ==
    (src.strs /\ pc = "exited" /\ exit = 0) =>
        StrValues(json_loads(fs[VersionsFile].content).v) = StrValues(src.val)

\* C7: the file is opened for writing only after a successful parse. When
\* the parse fails the run ends in a fatal error with the file as it was
\* and nothing printed; when it succeeds the diagnostic is printed exactly
\* once, before the file is opened for the single write.
C7_WriteOnlyAfterParse ==
    /\ wopens > 0 => ParseSucceeds /\ Len(out) = 1
    /\ ~ParseSucceeds =>
        /\ fs = fs0
        /\ out = <<>>
        /\ pc \in {"start", "exited"}
        /\ pc = "exited" => exit = 1
    /\ (ParseSucceeds /\ pc = "exited") =>
        /\ Len(out) = 1
        /\ wopens = 1
        /\ writes <= 1

\* a run whose parse failed has ended: a non-empty file, status 1
C7_ParseFailed ==
    /\ pc = "exited"
    /\ ~ParseSucceeds
    /\ exit = 1
    /\ fs0[VersionsFile].content # ""

====
